---- MODULE Spec2Model ----
(***************************************************************************)
(* Model of the desktop shell: the main-process WindowManager (registry),  *)
(* the IpcMainService handlers and the FloatBall widget controller.        *)
(*                                                                         *)
(* All coordinates are kept in tenths of a pixel, so that a fractional     *)
(* coordinate such as 10.7 is the integer 107 and Math.round has something *)
(* to do.  Px(n) is the whole pixel n.                                     *)
(***************************************************************************)
EXTENDS Integers, Sequences, FiniteSets, TLC

VARIABLES
    isDev,          \* is.dev of @electron-toolkit/utils
    hasRendererUrl, \* process.env.ELECTRON_RENDERER_URL is set
    windows,        \* WindowManager.windows: Map<WindowType, BrowserWindow>
    win,            \* every BrowserWindow constructed so far, by handle
    focused,        \* handle of the window holding the focus, or null
    ev,             \* the operation the last step performed, and its result
    lastRet,        \* per type: handle the last createOrGetWindow returned
    closedSince,    \* per type: closeWindow closed a live window, no create since
    goneSince,      \* per type: the registered window died on its own, no create since
    \* FloatBall (the renderer of the floatBall window)
    isExpanded,       \* useState(false)
    isDraggingRef,    \* useRef(false)
    initialMouse,     \* <<initialMouseXRef, initialMouseYRef>>
    mouseDownTimeRef, \* useRef(0)
    windowInitial,    \* <<windowInitialXRef, windowInitialYRef>>
    pending,          \* getPosition() promises not yet resolved, oldest first
    listeners,        \* the mousemove/mouseup listener pairs attached to document
    chan,             \* messages sent to the main process, not yet handled
    replies,          \* get-position results on their way to the renderer
    now,              \* Date.now(), in ms
    button,           \* the pointer button is held down
    cyc               \* the press cycle the last pointer-down started

hostVars == <<isDev, hasRendererUrl, windows, win, focused>>
histVars == <<lastRet, closedSince, goneSince>>
refVars == <<isDraggingRef, initialMouse, mouseDownTimeRef, windowInitial>>
widgetVars == <<isExpanded, refVars, pending, listeners, chan, replies, now, button, cyc>>
vars == <<hostVars, ev, histVars, widgetVars>>

\* ---------------------------------------------------------------- bounds

\* Windows constructed in one run.
MaxWin == 2

\* Pointer-down events on the collapsed widget in one run.
MaxPress == 2

\* Messages waiting in the channel to the main process.
MaxChan == 2

\* The clock stops here, in ms.
MaxTime == 200

\* ------------------------------------------------------------- constants

null == 0

WindowType == {"main", "floatBall", "popup"}
\* What a caller can pass at run time: the three roles and a foreign string.
AnyType == WindowType \cup {"nonexistent"}

\* screen.getPrimaryDisplay().workAreaSize of the modelled display, in pixels.
WorkArea == [width |-> 720, height |-> 580]

Px(n) == n * 10

\* ------------------------------------------------- Role configuration

\* getWindowConfig whose default arm falls back to the main window's
\* configuration instead of returning null.
getWindowConfig_defaultMain(type) ==
    [type |-> "main", width |-> 900, height |-> 670, show |-> FALSE,
     x |-> null, y |-> null,
     url |-> IF isDev /\ hasRendererUrl THEN "RENDERER_URL/index.html" ELSE "",
     hasUrl |-> isDev /\ hasRendererUrl,
     file |-> IF ~isDev \/ ~hasRendererUrl THEN "renderer/index.html" ELSE "",
     hash |-> ""]

\* getWindowConfig: the options the model reads, and the content locator.
\* hasUrl is FALSE (and url "") when the code leaves url undefined; file is
\* "" when the code leaves it undefined.  The default arm's null is the
\* record of type "none".
getWindowConfig(type) ==
    CASE type = "main" ->
            [type |-> "main", width |-> 900, height |-> 670, show |-> FALSE,
             x |-> null, y |-> null,
             url |-> IF isDev /\ hasRendererUrl THEN "RENDERER_URL/index.html" ELSE "",
             hasUrl |-> isDev /\ hasRendererUrl,
             file |-> IF ~isDev \/ ~hasRendererUrl THEN "renderer/index.html" ELSE "",
             hash |-> ""]
      [] type = "floatBall" ->
            [type |-> "floatBall", width |-> 190, height |-> 170, show |-> TRUE,
             x |-> WorkArea.width - 220, y |-> WorkArea.height - 180,
             url |-> IF isDev /\ hasRendererUrl THEN "RENDERER_URL/float.html" ELSE "",
             hasUrl |-> isDev /\ hasRendererUrl,
             file |-> IF ~isDev \/ ~hasRendererUrl THEN "renderer/float.html" ELSE "",
             hash |-> ""]
      [] type = "popup" ->
            [type |-> "popup", width |-> 600, height |-> 400, show |-> FALSE,
             x |-> null, y |-> null,
             url |-> IF isDev /\ hasRendererUrl THEN "RENDERER_URL/float.html#popup" ELSE "",
             hasUrl |-> isDev /\ hasRendererUrl,
             file |-> IF ~isDev \/ ~hasRendererUrl THEN "renderer/float.html" ELSE "",
             hash |-> "popup"]
      [] OTHER -> [type |-> "none"]

\* What createOrGetWindow loads into a new window (lines 50-58): the location
\* handed to loadURL or loadFile, or nothing at all.
LoadContent(config) ==
    IF isDev
    THEN [how |-> "loadURL", loc |-> IF config.hasUrl THEN config.url ELSE "", hash |-> ""]
    ELSE IF config.file # ""
         THEN [how |-> "loadFile", loc |-> config.file, hash |-> config.hash]
         ELSE [how |-> "none", loc |-> "", hash |-> ""]

\* ------------------------------------------------------ BrowserWindow

Handles == 1..Len(win)

\* BrowserWindow.isDestroyed()
isDestroyed(w) == win[w].status = "destroyed"

\* new BrowserWindow(config.options), then setupWindowEvents, then the load.
\* status: open | closing (close() requested, 'closed' not yet emitted) | destroyed.
NewWindow(type, config) ==
    [type        |-> type,
     status      |-> "open",
     visible     |-> config.show,
     minimized   |-> FALSE,
     ready       |-> FALSE,
     showOnReady |-> type \in {"main", "popup"},
     denyOpen    |-> type = "main",
     ignoreMouse |-> type = "floatBall",
     forward     |-> type = "floatBall",
     pos         |-> IF config.x = null THEN <<Px(0), Px(0)>>
                     ELSE <<Px(config.x), Px(config.y)>>,
     content     |-> LoadContent(config)]

\* A destroyed window: nothing of it can be read any more but isDestroyed().
Destroyed(rec) ==
    [rec EXCEPT !.status = "destroyed", !.visible = FALSE, !.minimized = FALSE,
                !.ready = FALSE, !.ignoreMouse = FALSE, !.forward = FALSE,
                !.pos = <<Px(0), Px(0)>>]

\* window.close(): the request; 'closed' is emitted by a later step.
RequestClose(ws, w) ==
    IF ws[w].status = "open" THEN [ws EXCEPT ![w].status = "closing"] ELSE ws

\* --------------------------------------------------------- WindowManager

\* Map.get: the entry, or null (undefined) when the key is absent.
MapGet(map, type) == IF type \in DOMAIN map THEN map[type] ELSE null

\* Map.delete
MapDelete(map, type) == [k \in DOMAIN map \ {type} |-> map[k]]

\* Map.set
MapSet(map, type, w) == [k \in DOMAIN map \cup {type} |-> IF k = type THEN w ELSE map[k]]

\* createOrGetWindow without the check for an existing live window.
createOrGetWindow_noReuse(type) ==
    LET config == getWindowConfig(type)
    IN  IF config.type = "none"
        THEN [ret |-> null, windows |-> windows, win |-> win, made |-> 0]
        ELSE LET w == Len(win) + 1
             IN  [ret |-> w,
                  windows |-> MapSet(windows, type, w),
                  win |-> Append(win, NewWindow(type, config)),
                  made |-> 1]

\* createOrGetWindow, as a function of the current state: the handle returned,
\* the map and the windows afterwards, and the number of windows constructed.
createOrGetWindow(type) ==
    LET existing == MapGet(windows, type)
        config == getWindowConfig(type)
    IN  IF existing # null /\ ~isDestroyed(existing)
        THEN [ret |-> existing, windows |-> windows, win |-> win, made |-> 0]
        ELSE IF config.type = "none"
        THEN [ret |-> null, windows |-> windows, win |-> win, made |-> 0]
        ELSE LET w == Len(win) + 1
             IN  [ret |-> w,
                  windows |-> MapSet(windows, type, w),
                  win |-> Append(win, NewWindow(type, config)),
                  made |-> 1]

\* getWindow
getWindow(type) ==
    LET window == MapGet(windows, type)
    IN  IF window # null /\ ~isDestroyed(window) THEN window ELSE null

\* closeWindow that requests the close and waits for 'closed' to drop the entry.
closeWindow_noDelete(type) ==
    LET window == MapGet(windows, type)
    IN  IF window # null /\ ~isDestroyed(window)
        THEN [windows |-> windows, win |-> RequestClose(win, window)]
        ELSE [windows |-> windows, win |-> win]

\* closeWindow, as a function of the current state.
closeWindow(type) ==
    LET window == MapGet(windows, type)
    IN  IF window # null /\ ~isDestroyed(window)
        THEN [windows |-> MapDelete(windows, type), win |-> RequestClose(win, window)]
        ELSE [windows |-> windows, win |-> win]

\* A 'closed' listener that forgets nothing.
closedListener_keep(map, type) == map

\* The 'closed' listener createOrGetWindow registers on a window of `type`.
closedListener(map, type) == MapDelete(map, type)

\* ------------------------------------------------------------- actions

\* op: the operation; type: its role argument; ret: the handle it returned or
\* acted on; made: windows constructed; cog: the role createOrGetWindow was
\* called with ("-" when it was not called); pos: a coordinate pair received or
\* returned; sent: the message delivered to a window's webContents; route: the
\* route the operation was given ("" when none); shown: the receiving window
\* was visible when `sent` was sent.
Event(op, type, ret, made, cog) ==
    [op |-> op, type |-> type, ret |-> ret, made |-> made, cog |-> cog,
     pos |-> << >>, sent |-> << >>, route |-> "", shown |-> FALSE]

\* A step of a window itself (an Electron event), not an operation of the code.
WindowEvent == Event("window", "-", null, 0, "-")

\* History kept for the properties: what a createOrGetWindow(type) call leaves.
AfterCreateOrGet(type, ret) ==
    /\ lastRet' = [lastRet EXCEPT ![type] = ret]
    /\ closedSince' = [closedSince EXCEPT ![type] = FALSE]
    /\ goneSince' = [goneSince EXCEPT ![type] = FALSE]

\* A new window with show: true takes the focus.
FocusAfterCreate(r) ==
    IF r.made = 1 /\ r.win[r.ret].visible THEN r.ret ELSE focused

CreateOrGet(type) ==
    LET r == createOrGetWindow(type)
    IN  /\ Len(win) + r.made <= MaxWin
        /\ windows' = r.windows
        /\ win' = r.win
        /\ focused' = FocusAfterCreate(r)
        /\ ev' = Event("createOrGet", type, r.ret, r.made, type)
        /\ AfterCreateOrGet(type, r.ret)
        /\ UNCHANGED <<isDev, hasRendererUrl>>

Close(type) ==
    LET r == closeWindow(type)
    IN  /\ windows' = r.windows
        /\ win' = r.win
        /\ ev' = Event("close", type, null, 0, "-")
        /\ lastRet' = [lastRet EXCEPT ![type] = null]
        /\ closedSince' = [closedSince EXCEPT ![type] = @ \/ getWindow(type) # null]
        /\ UNCHANGED <<isDev, hasRendererUrl, focused, goneSince>>

\* The window is destroyed and its 'closed' event is emitted: after a close()
\* request, or on its own (the user closes it).
Closed(w) ==
    /\ ~isDestroyed(w)
    /\ win' = [win EXCEPT ![w] = Destroyed(win[w])]
    /\ windows' = closedListener(windows, win[w].type)
    /\ focused' = IF focused = w THEN null ELSE focused
    /\ ev' = Event("closed", win[w].type, w, 0, "-")
    /\ lastRet' = [lastRet EXCEPT ![win[w].type] = null]
    /\ goneSince' = [goneSince EXCEPT ![win[w].type] =
                        @ \/ (win[w].status = "open" /\ MapGet(windows, win[w].type) = w)]
    /\ UNCHANGED <<isDev, hasRendererUrl, closedSince>>

\* closeAllWindows: close() on every entry still alive, then clear().
closeAllWindows ==
    LET alive == {w \in Handles : (\E k \in DOMAIN windows : windows[k] = w)
                                     /\ ~isDestroyed(w)}
    IN  [windows |-> << >>,
         win |-> [w \in Handles |-> IF w \in alive
                                     THEN [win[w] EXCEPT !.status = "closing"]
                                     ELSE win[w]]]

\* getAllWindows
getAllWindows == {w \in Handles : (\E k \in DOMAIN windows : windows[k] = w)
                                     /\ ~isDestroyed(w)}

CloseAll ==
    LET r == closeAllWindows
    IN  /\ windows' = r.windows
        /\ win' = r.win
        /\ ev' = Event("closeAll", "-", null, 0, "-")
        /\ lastRet' = [t \in AnyType |-> null]
        /\ UNCHANGED <<isDev, hasRendererUrl, focused, closedSince, goneSince>>

\* ------------------------------------------------ window events (Electron)

\* BrowserWindow.show(): visible, and it takes the focus.
\* 'ready-to-show' is emitted once; main and popup listen and call show().
ReadyToShow(w) ==
    /\ ~isDestroyed(w)
    /\ win[w].showOnReady
    /\ ~win[w].ready
    /\ win' = [win EXCEPT ![w].ready = TRUE,
                          ![w].visible = @ \/ win[w].showOnReady]
    /\ focused' = IF win[w].showOnReady THEN w ELSE focused
    /\ ev' = WindowEvent
    /\ UNCHANGED <<isDev, hasRendererUrl, windows, histVars>>

\* The user minimizes a visible framed window.
Minimize(w) ==
    /\ win[w].status = "open"
    /\ win[w].type # "floatBall"
    /\ win[w].visible
    /\ ~win[w].minimized
    /\ win' = [win EXCEPT ![w].minimized = TRUE]
    /\ focused' = IF focused = w THEN null ELSE focused
    /\ ev' = WindowEvent
    /\ UNCHANGED <<isDev, hasRendererUrl, windows, histVars>>

\* ----------------------------------------------------- IpcMainService

\* Math.floor in the place of Math.round.
MathRound_floor(v) == (v \div 10) * 10

\* Math.round on a number kept in tenths: the nearest whole number, a tie
\* going up.  The result is again in tenths.
MathRound(v) == ((v + 5) \div 10) * 10

\* Payloads a renderer can put on 'app:window:set-position', in tenths of a
\* pixel: {10.7, 20.2} and {-10.5, 5.5}.
PositionInputs == {<<107, 202>>, <<-105, 55>>}

\* options of 'app:window:restore-main': undefined, {} and {route}.
\* A route of "" is what `options?.route` finds falsy.
NoOptions == [given |-> FALSE, route |-> ""]
RestoreInputs == {NoOptions, [given |-> TRUE, route |-> ""],
                  [given |-> TRUE, route |-> "SETTINGS"]}

\* args of 'app:route'.
RouteInputs == {[route |-> "INDEX"]}

\* BrowserWindow.setIgnoreMouseEvents(ignore, {forward: true})
setIgnoreMouseEvents(ws, w, ignore) ==
    [ws EXCEPT ![w].ignoreMouse = ignore, ![w].forward = TRUE]

\* BrowserWindow.setPosition(x, y)
setPosition(ws, w, x, y) == [ws EXCEPT ![w].pos = <<x, y>>]

\* webContents.send(channel, payload): the message as the window receives it.
\* shape is "string" for a bare string payload, "route" for {route: string}.
Sent(w, channel, shape, route) == <<w, channel, shape, route>>

\* handleSetPosition that falls back, when the registry has no floatBall, to a
\* floatBall window kept from before (the module-level reference the registry
\* replaced).
handleSetPosition_stale(args) ==
    LET floatBall == getWindow("floatBall")
        stale == {w \in Handles : win[w].type = "floatBall" /\ ~isDestroyed(w)}
    IN  IF floatBall # null
        THEN setPosition(win, floatBall, MathRound(args[1]), MathRound(args[2]))
        ELSE IF stale # {}
             THEN setPosition(win, CHOOSE w \in stale : TRUE,
                              MathRound(args[1]), MathRound(args[2]))
             ELSE win

\* handleSetPosition: the windows afterwards.
handleSetPosition(args) ==
    LET floatBallWindow == getWindow("floatBall")
    IN  IF floatBallWindow # null
        THEN setPosition(win, floatBallWindow, MathRound(args[1]), MathRound(args[2]))
        ELSE win

\* handleGetPosition: the pair returned.
handleGetPosition ==
    LET floatBallWindow == getWindow("floatBall")
    IN  IF floatBallWindow # null THEN win[floatBallWindow].pos ELSE <<Px(0), Px(0)>>

\* handleMouseEnter / handleMouseLeave: the windows afterwards.
handleMouseEnter ==
    LET floatBallWindow == getWindow("floatBall")
    IN  IF floatBallWindow # null
        THEN setIgnoreMouseEvents(win, floatBallWindow, FALSE)
        ELSE win

handleMouseLeave ==
    LET floatBallWindow == getWindow("floatBall")
    IN  IF floatBallWindow # null
        THEN setIgnoreMouseEvents(win, floatBallWindow, TRUE)
        ELSE win

\* handleRestoreMain that sends the route before restore(), show() and focus().
handleRestoreMain_sendFirst(options) ==
    LET found == getWindow("main")
        r == IF found = null
             THEN createOrGetWindow("main")
             ELSE [ret |-> found, windows |-> windows, win |-> win, made |-> 0]
        mainWindow == r.ret
    IN  IF mainWindow # null
        THEN [ret |-> mainWindow,
              windows |-> r.windows,
              win |-> [r.win EXCEPT ![mainWindow].minimized = FALSE,
                                    ![mainWindow].visible = TRUE],
              focused |-> mainWindow,
              made |-> r.made,
              cog |-> IF found = null THEN "main" ELSE "-",
              sent |-> IF options.route # ""
                       THEN Sent(mainWindow, "app:route", "string", options.route)
                       ELSE << >>,
              shown |-> r.win[mainWindow].visible]
        ELSE [ret |-> null, windows |-> r.windows, win |-> r.win, focused |-> focused,
              made |-> r.made, cog |-> IF found = null THEN "main" ELSE "-",
              sent |-> << >>, shown |-> FALSE]

\* handleRestoreMain without the isMinimized()/restore() step.
handleRestoreMain_noRestore(options) ==
    LET found == getWindow("main")
        r == IF found = null
             THEN createOrGetWindow("main")
             ELSE [ret |-> found, windows |-> windows, win |-> win, made |-> 0]
        mainWindow == r.ret
    IN  IF mainWindow # null
        THEN [ret |-> mainWindow,
              windows |-> r.windows,
              win |-> [r.win EXCEPT ![mainWindow].visible = TRUE],
              focused |-> mainWindow,
              made |-> r.made,
              cog |-> IF found = null THEN "main" ELSE "-",
              sent |-> IF options.route # ""
                       THEN Sent(mainWindow, "app:route", "string", options.route)
                       ELSE << >>,
              shown |-> TRUE]
        ELSE [ret |-> null, windows |-> r.windows, win |-> r.win, focused |-> focused,
              made |-> r.made, cog |-> IF found = null THEN "main" ELSE "-",
              sent |-> << >>, shown |-> FALSE]

\* handleRestoreMain: the state afterwards, whether createOrGetWindow was
\* called, and the message sent to the main window (<< >> when none).
handleRestoreMain(options) ==
    LET found == getWindow("main")
        r == IF found = null
             THEN createOrGetWindow("main")
             ELSE [ret |-> found, windows |-> windows, win |-> win, made |-> 0]
        mainWindow == r.ret
        \* restore() if minimized, then show()
        afterShow == [r.win EXCEPT ![mainWindow].minimized = FALSE,
                                   ![mainWindow].visible = TRUE]
    IN  IF mainWindow # null
        THEN [ret |-> mainWindow,
              windows |-> r.windows,
              win |-> afterShow,
              \* show() and focus()
              focused |-> mainWindow,
              made |-> r.made,
              cog |-> IF found = null THEN "main" ELSE "-",
              sent |-> IF options.route # ""
                       THEN Sent(mainWindow, "app:route", "string", options.route)
                       ELSE << >>,
              \* webContents.send comes last: the window is as show() left it
              shown |-> afterShow[mainWindow].visible]
        ELSE [ret |-> null, windows |-> r.windows, win |-> r.win, focused |-> focused,
              made |-> r.made, cog |-> IF found = null THEN "main" ELSE "-",
              sent |-> << >>, shown |-> FALSE]

\* handleRoute: the message sent to the main window (<< >> when none).
handleRoute(args) ==
    LET mainWindow == getWindow("main")
    IN  IF mainWindow # null
        THEN Sent(mainWindow, "app:route", "string", args.route)
        ELSE << >>

\* The handlers as steps: a message of the channel arrives and is handled.
IpcPing ==
    /\ ev' = Event("ping", "-", null, 0, "-")
    /\ UNCHANGED <<hostVars, histVars>>

IpcOpenPopup ==
    LET r == createOrGetWindow("popup")
    IN  /\ Len(win) + r.made <= MaxWin
        /\ windows' = r.windows
        /\ win' = r.win
        /\ focused' = FocusAfterCreate(r)
        /\ ev' = Event("open-popup", "popup", r.ret, r.made, "popup")
        /\ AfterCreateOrGet("popup", r.ret)
        /\ UNCHANGED <<isDev, hasRendererUrl>>

IpcMouseEnter ==
    /\ win' = handleMouseEnter
    /\ ev' = Event("mouse-enter", "floatBall", getWindow("floatBall"), 0, "-")
    /\ UNCHANGED <<isDev, hasRendererUrl, windows, focused, histVars>>

IpcMouseLeave ==
    /\ win' = handleMouseLeave
    /\ ev' = Event("mouse-leave", "floatBall", getWindow("floatBall"), 0, "-")
    /\ UNCHANGED <<isDev, hasRendererUrl, windows, focused, histVars>>

IpcGetPosition ==
    /\ ev' = [Event("get-position", "floatBall", getWindow("floatBall"), 0, "-")
                EXCEPT !.pos = handleGetPosition]
    /\ UNCHANGED <<hostVars, histVars>>

IpcSetPosition(args) ==
    /\ win' = handleSetPosition(args)
    /\ ev' = [Event("set-position", "floatBall", getWindow("floatBall"), 0, "-")
                EXCEPT !.pos = args]
    /\ UNCHANGED <<isDev, hasRendererUrl, windows, focused, histVars>>

IpcRestoreMain(options) ==
    LET r == handleRestoreMain(options)
    IN  /\ Len(win) + r.made <= MaxWin
        /\ windows' = r.windows
        /\ win' = r.win
        /\ focused' = r.focused
        /\ ev' = [Event("restore-main", "main", r.ret, r.made, r.cog)
                    EXCEPT !.sent = r.sent, !.route = options.route,
                           !.shown = r.shown]
        /\ IF r.cog = "main"
           THEN AfterCreateOrGet("main", r.ret)
           ELSE UNCHANGED histVars
        /\ UNCHANGED <<isDev, hasRendererUrl>>

IpcRoute(args) ==
    /\ ev' = [Event("route", "main", getWindow("main"), 0, "-")
                EXCEPT !.sent = handleRoute(args), !.route = args.route]
    /\ UNCHANGED <<hostVars, histVars>>

\* ------------------------------------------------------------ FloatBall

\* Math.abs(delta) > 5, in pixels.
DragThreshold == 5

\* Date.now() - mouseDownTimeRef.current < 200, in ms.
ClickWindow == 200

\* Screen coordinates the pointer events carry, in pixels.
Points == {<<100, 100>>, <<105, 95>>, <<120, 110>>}

\* How far the clock advances between two events, in ms.
TickSteps == {100}

\* handleAction whose three arms all call restoreMain() without options.
ActionRoutes_noHint == [restore |-> "", dashboard |-> "", settings |-> ""]

\* route hints of handleAction; "" is restoreMain() without options.
ActionRoutes == [restore |-> "", dashboard |-> "INDEX", settings |-> "SETTINGS"]

Abs(n) == IF n < 0 THEN 0 - n ELSE n

\* A message of the renderer to the main process.
Message(channel, pos, options) == [channel |-> channel, pos |-> pos, options |-> options]

\* ipcRenderService.setPosition({x, y})
SetPositionMessage(x, y) == Message("app:window:set-position", <<x, y>>, NoOptions)

\* The press cycle as an observer sees it: its number, whether the button it
\* pressed is still down, where and when the button went down, whether a move
\* made while the button was down went beyond the threshold,
\* what its position query returned (<< >> until it has), how often it turned
\* into a drag and how many position-set messages were sent during it.
NoCycle == [id |-> 0, open |-> FALSE, press |-> <<Px(0), Px(0)>>, at |-> 0,
            exceeded |-> FALSE, reply |-> << >>, entered |-> 0, sent |-> 0]

WidgetInit ==
    /\ isExpanded = FALSE
    /\ isDraggingRef = FALSE
    /\ initialMouse = <<Px(0), Px(0)>>
    /\ mouseDownTimeRef = 0
    /\ windowInitial = <<Px(0), Px(0)>>
    /\ pending = << >>
    /\ listeners = << >>
    /\ chan = << >>
    /\ replies = << >>
    /\ now = 0
    /\ button = FALSE
    /\ cyc = NoCycle

\* handleMouseMove that adds the pointer's coordinates, not the delta.
handleMouseMove_absolute(p, d) ==
    LET deltaX == p[1] - initialMouse[1]
        deltaY == p[2] - initialMouse[2]
        dragging == d \/ (~d /\ (Abs(deltaX) > Px(DragThreshold)
                                  \/ Abs(deltaY) > Px(DragThreshold)))
    IN  [dragging |-> dragging,
         sent |-> IF dragging
                  THEN <<SetPositionMessage(windowInitial[1] + p[1],
                                            windowInitial[2] + p[2])>>
                  ELSE << >>]

\* handleMouseMove of one listener at screen point p, with the drag flag d:
\* the flag afterwards and the messages it sends.
handleMouseMove(p, d) ==
    LET deltaX == p[1] - initialMouse[1]
        deltaY == p[2] - initialMouse[2]
        dragging == d \/ (~d /\ (Abs(deltaX) > Px(DragThreshold)
                                  \/ Abs(deltaY) > Px(DragThreshold)))
    IN  [dragging |-> dragging,
         sent |-> IF dragging
                  THEN <<SetPositionMessage(windowInitial[1] + deltaX,
                                            windowInitial[2] + deltaY)>>
                  ELSE << >>]

\* A mousemove event of document: every attached handleMouseMove runs in turn.
RECURSIVE DispatchMove(_, _, _, _)
DispatchMove(n, p, d, out) ==
    IF n = 0 THEN [dragging |-> d, sent |-> out]
    ELSE LET r == handleMouseMove(p, d)
         IN  DispatchMove(n - 1, p, r.dragging, out \o r.sent)

\* handleMouseUp that reads only the time since the press, not the drag flag.
handleMouseUp_timeOnly(captured, expanded) ==
    IF now - mouseDownTimeRef < ClickWindow
    THEN ~captured
    ELSE expanded

\* handleMouseUp of one listener, whose closure captured isExpanded as
\* `captured`: the value it sets isExpanded to, or the current one.
handleMouseUp(captured, expanded) ==
    IF ~isDraggingRef /\ now - mouseDownTimeRef < ClickWindow
    THEN ~captured
    ELSE expanded

\* A mouseup event of document: every attached handleMouseUp runs in turn.
RECURSIVE DispatchUp(_, _)
DispatchUp(ls, expanded) ==
    IF ls = << >> THEN expanded
    ELSE DispatchUp(Tail(ls), handleMouseUp(Head(ls), expanded))

\* The move at p goes beyond the threshold, measured from the press at q.
Exceeds(p, q) ==
    Abs(p[1] - q[1]) > Px(DragThreshold) \/ Abs(p[2] - q[2]) > Px(DragThreshold)

PxPoint(p) == <<Px(p[1]), Px(p[2])>>

\* mousedown on the widget: handleMouseDown.
PointerDown(pt) ==
    LET p == PxPoint(pt)
    IN  /\ ~button
        /\ button' = TRUE
        /\ IF isExpanded
           THEN /\ ev' = [Event("pointer-down", "-", null, 0, "-") EXCEPT !.pos = p]
                /\ UNCHANGED <<refVars, pending, chan, cyc>>
           ELSE /\ cyc.id < MaxPress
                /\ Len(chan) < MaxChan
                /\ isDraggingRef' = FALSE
                /\ initialMouse' = p
                /\ mouseDownTimeRef' = now
                /\ chan' = Append(chan, Message("app:window:get-position", << >>, NoOptions))
                /\ pending' = Append(pending, [captured |-> isExpanded, id |-> cyc.id + 1])
                /\ cyc' = [id |-> cyc.id + 1, open |-> TRUE, press |-> p, at |-> now,
                           exceeded |-> FALSE, reply |-> << >>, entered |-> 0, sent |-> 0]
                /\ ev' = [Event("pointer-down", "-", null, 0, "-")
                            EXCEPT !.pos = p,
                                   !.sent = <<Message("app:window:get-position", << >>, NoOptions)>>]
                /\ UNCHANGED windowInitial
        /\ UNCHANGED <<hostVars, histVars, isExpanded, listeners, replies, now>>

\* The getPosition() promise resolves: the .then callback of handleMouseDown.
ResolvePosition ==
    /\ replies # << >>
    /\ pending # << >>
    /\ windowInitial' = Head(replies)
    /\ listeners' = Append(listeners, Head(pending).captured)
    /\ replies' = Tail(replies)
    /\ pending' = Tail(pending)
    /\ cyc' = IF Head(pending).id = cyc.id
              THEN [cyc EXCEPT !.reply = Head(replies)]
              ELSE cyc
    /\ ev' = [Event("position-resolved", "-", null, 0, "-") EXCEPT !.pos = Head(replies)]
    /\ UNCHANGED <<hostVars, histVars, isExpanded, isDraggingRef, initialMouse,
                   mouseDownTimeRef, chan, now, button>>

\* mousemove on document.
PointerMove(pt) ==
    LET p == PxPoint(pt)
        r == DispatchMove(Len(listeners), p, isDraggingRef, << >>)
    IN  /\ Len(chan) + Len(r.sent) <= MaxChan
        /\ isDraggingRef' = r.dragging
        /\ chan' = chan \o r.sent
        /\ cyc' = [cyc EXCEPT !.exceeded = @ \/ (cyc.open /\ Exceeds(p, cyc.press)),
                              !.entered = IF ~isDraggingRef /\ r.dragging THEN @ + 1 ELSE @,
                              !.sent = IF @ + Len(r.sent) > 1 THEN 1 ELSE @ + Len(r.sent)]
        /\ ev' = [Event("pointer-move", "-", null, 0, "-") EXCEPT !.pos = p, !.sent = r.sent]
        /\ UNCHANGED <<hostVars, histVars, isExpanded, initialMouse, mouseDownTimeRef,
                       windowInitial, pending, listeners, replies, now, button>>

\* mouseup on document.
PointerUp ==
    /\ button
    /\ button' = FALSE
    /\ isExpanded' = DispatchUp(listeners, isExpanded)
    /\ listeners' = << >>
    /\ cyc' = [cyc EXCEPT !.open = FALSE]
    /\ ev' = Event("pointer-up", "-", null, 0, "-")
    /\ UNCHANGED <<hostVars, histVars, refVars, pending, chan, replies, now>>

\* A button of the expanded widget: handleAction.
Action(action) ==
    /\ isExpanded
    /\ Len(chan) < MaxChan
    /\ chan' = Append(chan, Message("app:window:restore-main", << >>,
                                    [given |-> ActionRoutes[action] # "",
                                     route |-> ActionRoutes[action]]))
    /\ isExpanded' = FALSE
    /\ ev' = [Event("action", action, null, 0, "-")
                EXCEPT !.sent = <<Message("app:window:restore-main", << >>,
                                          [given |-> ActionRoutes[action] # "",
                                           route |-> ActionRoutes[action]])>>]
    /\ UNCHANGED <<hostVars, histVars, refVars, pending, listeners, replies, now, button, cyc>>

\* Time passes.
Tick(d) ==
    /\ now + d <= MaxTime
    /\ now' = now + d
    /\ ev' = Event("tick", "-", null, 0, "-")
    /\ UNCHANGED <<hostVars, histVars, isExpanded, refVars, pending, listeners, chan,
                   replies, button, cyc>>

\* The main process handles the oldest message of the channel.
Deliver ==
    /\ chan # << >>
    /\ chan' = Tail(chan)
    /\ LET m == Head(chan)
       IN  \/ /\ m.channel = "app:window:get-position"
              /\ IpcGetPosition
              /\ replies' = Append(replies, handleGetPosition)
           \/ /\ m.channel = "app:window:set-position"
              /\ IpcSetPosition(m.pos)
              /\ UNCHANGED replies
           \/ /\ m.channel = "app:window:restore-main"
              /\ IpcRestoreMain(m.options)
              /\ UNCHANGED replies
    /\ UNCHANGED <<isExpanded, refVars, pending, listeners, now, button, cyc>>

\* The application after start-up created the floatBall window.
InitWidget ==
    /\ isDev = FALSE
    /\ hasRendererUrl = FALSE
    /\ windows = [t \in {"floatBall"} |-> 1]
    /\ win = <<NewWindow("floatBall", getWindowConfig("floatBall"))>>
    /\ focused = 1
    /\ ev = Event("createOrGet", "floatBall", 1, 1, "floatBall")
    /\ lastRet = [t \in AnyType |-> IF t = "floatBall" THEN 1 ELSE null]
    /\ closedSince = [t \in AnyType |-> FALSE]
    /\ goneSince = [t \in AnyType |-> FALSE]
    /\ WidgetInit

NextWidget ==
    \/ \E pt \in Points : PointerDown(pt)
    \/ ResolvePosition
    \/ \E pt \in Points : PointerMove(pt)
    \/ PointerUp
    \/ \E action \in DOMAIN ActionRoutes : Action(action)
    \/ \E d \in TickSteps : Tick(d)
    \/ Deliver

SpecWidget == InitWidget /\ [][NextWidget]_vars

Init ==
    /\ isDev = FALSE
    /\ hasRendererUrl = FALSE
    /\ windows = << >>
    /\ win = << >>
    /\ focused = null
    /\ ev = Event("init", "-", null, 0, "-")
    /\ lastRet = [t \in AnyType |-> null]
    /\ closedSince = [t \in AnyType |-> FALSE]
    /\ goneSince = [t \in AnyType |-> FALSE]
    /\ WidgetInit

Next ==
    \/ \E type \in AnyType : CreateOrGet(type) /\ UNCHANGED widgetVars
    \/ \E type \in AnyType : Close(type) /\ UNCHANGED widgetVars
    \/ CloseAll /\ UNCHANGED widgetVars
    \/ \E w \in Handles : Closed(w) /\ UNCHANGED widgetVars
    \/ \E w \in Handles : ReadyToShow(w) /\ UNCHANGED widgetVars
    \/ \E w \in Handles : Minimize(w) /\ UNCHANGED widgetVars
    \/ IpcPing /\ UNCHANGED widgetVars
    \/ IpcOpenPopup /\ UNCHANGED widgetVars
    \/ IpcMouseEnter /\ UNCHANGED widgetVars
    \/ IpcMouseLeave /\ UNCHANGED widgetVars
    \/ IpcGetPosition /\ UNCHANGED widgetVars
    \/ \E args \in PositionInputs : IpcSetPosition(args) /\ UNCHANGED widgetVars
    \/ \E options \in RestoreInputs : IpcRestoreMain(options) /\ UNCHANGED widgetVars
    \/ \E args \in RouteInputs : IpcRoute(args) /\ UNCHANGED widgetVars

Spec == Init /\ [][Next]_vars

\* The host started in any environment: is.dev and ELECTRON_RENDERER_URL are
\* fixed at process start and read by getWindowConfig and createOrGetWindow.
InitEnv ==
    /\ isDev \in BOOLEAN
    /\ hasRendererUrl \in BOOLEAN
    /\ windows = << >>
    /\ win = << >>
    /\ focused = null
    /\ ev = Event("init", "-", null, 0, "-")
    /\ lastRet = [t \in AnyType |-> null]
    /\ closedSince = [t \in AnyType |-> FALSE]
    /\ goneSince = [t \in AnyType |-> FALSE]
    /\ WidgetInit

SpecEnv == InitEnv /\ [][Next]_vars

\* ------------------------------------------------------------ properties

\* The windows of role `type` that are not destroyed.
LiveOf(type) == {w \in Handles : win[w].type = type /\ ~isDestroyed(w)}

\* C1: at most one live (non-destroyed) window exists for each role, whatever
\* sequence of registry calls, handler calls and destruction notifications ran.
OneLivePerRole == \A type \in WindowType : Cardinality(LiveOf(type)) <= 1

\* C2: a createOrGetWindow(type) call that follows another one, with no
\* closeWindow(type), closeAllWindows or 'closed' of a window of that role in
\* between, returns the handle the earlier call returned and constructs nothing.
CreateOrGetIdempotent ==
    [][\A type \in AnyType :
          (ev'.cog = type /\ lastRet[type] # null)
              => (ev'.ret = lastRet[type] /\ ev'.made = 0 /\ win' = win)]_vars

\* A second createOrGetWindow has returned the handle already registered.
C2Witness ==
    /\ ev.op = "createOrGet"
    /\ ev.ret # null
    /\ ev.made = 0
    /\ lastRet[ev.type] = ev.ret

\* C3: once closeWindow(type) has closed a live registered window, getWindow(type)
\* is null until the next createOrGetWindow(type), and that call constructs a
\* window whose handle is none of the handles that existed before.
CloseThenFresh ==
    /\ [](\A type \in WindowType : closedSince[type] => getWindow(type) = null)
    /\ [][\A type \in WindowType :
            (closedSince[type] /\ ev'.cog = type)
                => (ev'.made = 1 /\ ev'.ret \notin Handles
                    /\ ev'.ret = MapGet(windows', type))]_vars

\* A window was closed by closeWindow and createOrGetWindow has built the
\* next one of its role.
C3Witness ==
    /\ ev.op = "createOrGet"
    /\ ev.made = 1
    /\ \E w \in Handles : /\ w # ev.ret
                          /\ win[w].type = ev.type
                          /\ win[w].status = "closing"

\* C4: once the registered window of a role was destroyed on its own (no close
\* was requested), getWindow of the role is null and the registry holds no entry
\* for it, with no further registry call, until the next createOrGetWindow.
GoneMeansForgotten ==
    \A type \in WindowType :
        goneSince[type] => (getWindow(type) = null /\ type \notin DOMAIN windows)

\* The registered window of a role has just been destroyed on its own.
C4Witness ==
    /\ ev.op = "closed"
    /\ goneSince[ev.type]
    /\ isDestroyed(ev.ret)

\* C5: createOrGetWindow with a type that is no role returns null, constructs
\* no window and leaves the map as it was.
UnknownRoleRejected ==
    [][ev'.cog = "nonexistent"
          => (ev'.ret = null /\ ev'.made = 0 /\ windows' = windows /\ win' = win)]_vars

\* createOrGetWindow("nonexistent") has returned null on a registry that is
\* not empty.
C5Witness ==
    /\ ev.op = "createOrGet"
    /\ ev.type = "nonexistent"
    /\ ev.ret = null
    /\ DOMAIN windows # {}

\* C6: a 'closed' notification of a window whose entry closeWindow has already
\* removed leaves the registry unchanged, also when the role has a new window.
LateClosedLeavesRegistry ==
    [][\A w \in Handles :
          (/\ win[w].status = "closing"
           /\ win'[w].status = "destroyed"
           /\ MapGet(windows, win[w].type) # w)
              => windows' = windows]_vars

\* n, in tenths, is a whole number and no whole number is nearer to v.
IsNearestWhole(n, v) ==
    /\ n % 10 = 0
    /\ \A k \in (v \div 10) - 1 .. (v \div 10) + 2 :
          (IF n >= v THEN n - v ELSE v - n)
              <= (IF Px(k) >= v THEN Px(k) - v ELSE v - Px(k))

\* C9: a handled position-set {x, y} leaves the live floatBall window at the
\* whole numbers nearest to x and y, and no window is ever at a fractional
\* position.
PositionRounded ==
    /\ \A w \in Handles : win[w].pos[1] % 10 = 0 /\ win[w].pos[2] % 10 = 0
    /\ (ev.op = "set-position" /\ ev.ret # null)
          => /\ IsNearestWhole(win[ev.ret].pos[1], ev.pos[1])
             /\ IsNearestWhole(win[ev.ret].pos[2], ev.pos[2])

\* {x: 10.7, y: 20.2} was handled and the floatBall window is at {11, 20}.
C9Witness ==
    /\ ev.op = "set-position"
    /\ ev.ret # null
    /\ ev.pos = <<107, 202>>
    /\ win[ev.ret].pos = <<Px(11), Px(20)>>

\* C10: after handleRestoreMain a live main window is registered, not
\* minimized, visible and focused; when no live main window existed before,
\* exactly one window was constructed.
RestoreMainEnsures ==
    [][ev'.op = "restore-main"
          => LET w == MapGet(windows', "main")
             IN  /\ w # null
                 /\ w = ev'.ret
                 /\ win'[w].type = "main"
                 /\ win'[w].status = "open"
                 /\ ~win'[w].minimized
                 /\ win'[w].visible
                 /\ focused' = w
                 /\ (LiveOf("main") = {} => Len(win') = Len(win) + 1)
                 /\ Len(win') <= Len(win) + 1]_vars

\* handleRestoreMain found no main window and created it.
C10Witness ==
    /\ ev.op = "restore-main"
    /\ ev.made = 1
    /\ win[ev.ret].visible
    /\ focused = ev.ret

\* C7: a press cycle on the collapsed widget in which no move went beyond 5
\* pixels and whose pointer-up comes less than 200 ms after the press yields a
\* click (the widget is expanded afterwards) and sends no position-set message.
ClickWithinThreshold ==
    [][(/\ ev'.op = "pointer-up"
        /\ cyc.open
        /\ ~cyc.exceeded
        /\ now - cyc.at < ClickWindow)
          => (isExpanded' /\ cyc'.sent = 0)]_vars

\* The position a move at p has to send in the cycle c.
Expected(c, p) == <<c.reply[1] + (p[1] - c.press[1]), c.reply[2] + (p[2] - c.press[2])>>

\* C8: in a press cycle at (px,py) whose position query returned (wx,wy), a
\* move beyond 5 pixels turns the cycle into a drag, the cycle turns into a
\* drag once only, and every position-set message sent for a move at (mx,my)
\* carries {wx + (mx - px), wy + (my - py)}.
DragSendsInitialPlusDelta ==
    [][/\ (ev'.op = "pointer-move" /\ cyc.reply # << >>)
            => /\ \A i \in 1..Len(ev'.sent) :
                     /\ ev'.sent[i].channel = "app:window:set-position"
                     /\ ev'.sent[i].pos = Expected(cyc, ev'.pos)
               /\ (listeners # << >> /\ Exceeds(ev'.pos, cyc.press))
                     => (isDraggingRef' /\ ev'.sent # << >>)
       /\ (~isDraggingRef /\ isDraggingRef')
            => /\ ev'.op = "pointer-move"
               /\ Exceeds(ev'.pos, initialMouse)
               /\ cyc.entered = 0
               /\ cyc'.entered = 1]_vars

\* Pressed at (100,100) with the window at (500,400), the move to (120,110)
\* has sent {520, 410}.
C8Witness ==
    /\ ev.op = "pointer-move"
    /\ ev.pos = PxPoint(<<120, 110>>)
    /\ cyc.press = PxPoint(<<100, 100>>)
    /\ cyc.reply = PxPoint(<<500, 400>>)
    /\ isDraggingRef
    /\ ev.sent = <<SetPositionMessage(Px(520), Px(410))>>

\* C11: handleRestoreMain sends a navigation message to the main window exactly
\* when the restore-main message carried a route (a non-empty one); the message
\* goes to the main window, carries that route, and is sent once show() has
\* made the window visible.
RouteSentIffHinted ==
    ev.op = "restore-main"
        => /\ (ev.sent # << >>) <=> (ev.route # "")
           /\ ev.sent # << >>
                => /\ ev.sent[1] = ev.ret
                   /\ ev.sent[1] = MapGet(windows, "main")
                   /\ ev.sent[2] = "app:route"
                   /\ ev.sent[4] = ev.route
                   /\ ev.shown
                   /\ win[ev.ret].visible

\* restore-main with the route SETTINGS created the main window, showed it and
\* sent it the route.
C11Witness ==
    /\ ev.op = "restore-main"
    /\ ev.route = "SETTINGS"
    /\ ev.made = 1
    /\ ev.sent # << >>
    /\ ev.sent[4] = "SETTINGS"
    /\ win[ev.ret].visible

\* C12: when getWindow finds no window for the target role, the handlers of
\* mouse-enter, mouse-leave, set-position and route are no-ops: no window is
\* created, nothing is sent, and the registry, every window's state and the
\* focus are as before.
NoTargetNoOp ==
    [][ (/\ ev'.op \in {"mouse-enter", "mouse-leave", "set-position", "route"}
         /\ getWindow(ev'.type) = null)
            => /\ ev'.ret = null
               /\ ev'.made = 0
               /\ ev'.sent = << >>
               /\ windows' = windows
               /\ win' = win
               /\ focused' = focused ]_vars

\* set-position was handled while the registry held no floatBall although a
\* floatBall window, asked to close, was still alive.
C12Witness ==
    /\ ev.op = "set-position"
    /\ ev.ret = null
    /\ \E w \in Handles : win[w].type = "floatBall" /\ win[w].status = "closing"

\* C13: a live floatBall window ignores the mouse, with forwarding, from its
\* creation on; once mouse-enter has been handled it no longer ignores the
\* mouse, once mouse-leave has been handled it ignores it again, and no other
\* step changes that.
ClickThroughFollowsLast ==
    [][ \A w \in 1..Len(win') :
            (win'[w].type = "floatBall" /\ win'[w].status # "destroyed")
                => IF w \notin Handles
                   THEN win'[w].ignoreMouse /\ win'[w].forward
                   ELSE /\ win'[w].forward
                        /\ win'[w].ignoreMouse =
                               CASE ev'.op = "mouse-enter" -> FALSE
                                 [] ev'.op = "mouse-leave" -> TRUE
                                 [] OTHER -> win[w].ignoreMouse ]_vars

\* C14: a main or popup window that has not signalled ready-to-show is not
\* visible, whichever messages have been handled.
HiddenUntilReady ==
    \A w \in Handles :
        (win[w].type \in {"main", "popup"} /\ ~isDestroyed(w) /\ ~win[w].ready)
            => ~win[w].visible

\* C15: whatever the role and the environment, a window loads the dev-server
\* address when the host runs in development with a dev server configured, and
\* the role's local file otherwise (the popup with the fragment "popup"); it
\* never loads an empty location.
RemotePage(type) ==
    CASE type = "main" -> "RENDERER_URL/index.html"
      [] type = "floatBall" -> "RENDERER_URL/float.html"
      [] type = "popup" -> "RENDERER_URL/float.html#popup"

LocalPage(type) ==
    CASE type = "main" -> "renderer/index.html"
      [] type = "floatBall" -> "renderer/float.html"
      [] type = "popup" -> "renderer/float.html"

LoadsByEnvironment ==
    \A w \in Handles :
        /\ win[w].content.loc # ""
        /\ win[w].content =
              IF isDev /\ hasRendererUrl
              THEN [how |-> "loadURL", loc |-> RemotePage(win[w].type), hash |-> ""]
              ELSE [how |-> "loadFile", loc |-> LocalPage(win[w].type),
                    hash |-> IF win[w].type = "popup" THEN "popup" ELSE ""]

\* C16: every message sent on the app:route channel carries a payload of
\* the shape {route: string}.
RoutePayloadIsRecord ==
    (ev.sent # << >> /\ ev.sent[2] = "app:route") => ev.sent[3] = "route"

\* C17: a pointer-up ends the press cycle in whatever state it is: once the
\* button of the latest cycle has been released, no mousemove or mouseup
\* listener is attached to the document.
NoListenerAfterUp ==
    (cyc.id > 0 /\ ~cyc.open) => listeners = << >>

\* C18: a pointer-move received before the position query of the current
\* press has resolved is dropped: it sends no set-position message and does not
\* turn the cycle into a drag.
MoveBeforeReplyDropped ==
    [][ (ev'.op = "pointer-move" /\ cyc.id > 0 /\ cyc.reply = << >>)
            => /\ ev'.sent = << >>
               /\ chan' = chan
               /\ isDraggingRef' = isDraggingRef
               /\ cyc'.entered = cyc.entered ]_vars

\* C19: a pointer-down while the widget is expanded issues no position query
\* and leaves the drag state alone, and no set-position message is sent while
\* the widget is expanded.
ExpandedSuppressesDrag ==
    [][ /\ (ev'.op = "pointer-down" /\ isExpanded)
            => /\ ev'.sent = << >>
               /\ UNCHANGED <<refVars, pending, listeners, chan, cyc>>
        /\ (ev'.op = "pointer-move" /\ isExpanded)
            => /\ ev'.sent = << >>
               /\ chan' = chan ]_vars

\* C20: the pointer-up of a press cycle that turned into a drag is no click:
\* isExpanded is afterwards what it was before, however short the time since
\* the press.
DragEndsWithoutClick ==
    [][ (ev'.op = "pointer-up" /\ cyc.open /\ cyc.entered > 0)
            => isExpanded' = isExpanded ]_vars

\* A cycle that sent set-position messages ended with a pointer-up less than
\* ClickWindow after its press, and the widget is still collapsed.
C20Witness ==
    /\ ev.op = "pointer-up"
    /\ cyc.id > 0
    /\ ~cyc.open
    /\ cyc.entered > 0
    /\ cyc.sent > 0
    /\ cyc.reply # << >>
    /\ now - cyc.at < ClickWindow
    /\ ~isExpanded

\* C21: each action of the expanded widget (restore, settings, dashboard) sends
\* exactly one restore-main message - restore without a route, settings with
\* the route SETTINGS, dashboard with the route INDEX - and leaves the widget
\* collapsed.
ActionSendsOneRestore ==
    [][ ev'.op = "action"
            => /\ ev'.type \in {"restore", "settings", "dashboard"}
               /\ Len(ev'.sent) = 1
               /\ chan' = chan \o ev'.sent
               /\ ev'.sent[1].channel = "app:window:restore-main"
               /\ ev'.sent[1].options.route =
                      CASE ev'.type = "restore" -> ""
                        [] ev'.type = "settings" -> "SETTINGS"
                        [] ev'.type = "dashboard" -> "INDEX"
               /\ ev'.sent[1].options.given = (ev'.type # "restore")
               /\ ~isExpanded' ]_vars

\* The settings action of the expanded widget has just run: its restore-main
\* message with the route SETTINGS is the newest in the channel and the widget
\* is collapsed.
C21Witness ==
    /\ ev.op = "action"
    /\ ev.type = "settings"
    /\ chan # << >>
    /\ chan[Len(chan)].channel = "app:window:restore-main"
    /\ chan[Len(chan)].options.route = "SETTINGS"
    /\ ~isExpanded

\* C22: a set-position message is sent only while the pointer button is held
\* down: after a pointer-down and before the pointer-up that follows it.
SetPositionOnlyWhileHeld ==
    [][ (ev'.op = "pointer-move" /\ ev'.sent # << >>) => button ]_vars

\* C23: at most one pair of mousemove/mouseup listeners is attached at any
\* time, so a pointer-move sends at most one set-position message (and a
\* pointer-up runs at most one handleMouseUp), also when a press starts before
\* the position query of an earlier press has resolved.
OneListenerPair ==
    /\ Len(listeners) <= 1
    /\ ev.op = "pointer-move" => Len(ev.sent) <= 1

====
